---- MODULE Spec2Model ----
(***************************************************************************)
(* PyEzLoader: the connector / load-mode abstraction (App/connectors.py,   *)
(* App/database_connectors.py) and the pipeline runner (App/pipelines.py,  *)
(* App/transformations.py) as a state machine.                             *)
(*                                                                         *)
(* The state is one target medium (a SQL table T, or a delimited /         *)
(* spreadsheet file) of one backend type, plus the record of the last      *)
(* top-level operation that ran against it.  Every action is one whole     *)
(* call of a public operation; the calls it makes are recorded, in order   *)
(* and with their nesting depth, in last.log.                              *)
(***************************************************************************)
EXTENDS Integers, Sequences, FiniteSets, TLC

VARIABLES
    backend,    \* the backend type of the target connection descriptor
    db,         \* the SQL target: [schema, exists, cols, rows]
    file,       \* the file target: [exists, cols, rows]
    folder,     \* the files of the pipeline folder, in the order they are listed
    pipelines,  \* PipelineManager.pipelines: the descriptors loaded at construction
    last        \* the last top-level operation: its inputs, call log and outcome

vars == <<backend, db, file, folder, pipelines, last>>

(***************************************************************************)
(* Bounds                                                                  *)
(***************************************************************************)
MaxDf == 2          \* rows in a dataset handed to a write: 0..MaxDf
MaxOld == 1         \* rows the target holds initially: 0..MaxOld
MaxRows == 3        \* rows the target may hold (guards of the writing actions)
MaxDocs == 3        \* files in a folder of documents handed to a loader
MaxLen == 3         \* characters in a string handed to a string function
MaxSteps == 2       \* steps in a list of transformations

(***************************************************************************)
(* Backend types                                                           *)
(***************************************************************************)
FileTypes == {"Excel", "CSV"}
SQLTypes == {"PostgreSQL", "MySQL", "Redshift", "MSSQL", "Oracle", "SQLite", "ODBC"}
CONNECTOR_MAP == FileTypes \cup SQLTypes

\* connector_test.py: every type that is not Excel or CSV is SQL based
is_sql_based(connector_type) == connector_type \notin {"Excel", "CSV"}

(***************************************************************************)
(* Datasets.  A row is a natural number: 0 is a row the target held before *)
(* any write of the run, 1..n are the rows of a dataset of n rows.  The    *)
(* column list of a dataset or table is a tag.                             *)
(***************************************************************************)
ColTags == {"A", "B"}
DfRows(n) == [i \in 1..n |-> i]
DataFrames == [cols : ColTags, rows : {DfRows(n) : n \in 0..MaxDf}]

NoTable == [schema |-> TRUE, exists |-> FALSE, cols |-> "-", rows |-> <<>>]
NoFile == [exists |-> FALSE, cols |-> "-", rows |-> <<>>]
NoDf == [cols |-> "-", rows |-> <<>>]

\* Pipeline.status; built is false while no Pipeline object exists
NoStatus == [built |-> FALSE, success |-> FALSE, errors |-> <<>>,
             source_rows |-> 0, target_rows |-> 0]

(***************************************************************************)
(* Faults of the environment during one operation: the connection cannot   *)
(* be opened, a catalog query is rejected, a TRUNCATE / DROP / CREATE is    *)
(* rejected, or an insert is rejected.                                     *)
(***************************************************************************)
Faults == {"none", "connect", "exists", "ddl", "insert"}

(***************************************************************************)
(* The world threaded through the calls of one operation.                  *)
(*   log     the calls made so far: [d: depth, f: function, a: argument]   *)
(*   open    connections currently open, maxOpen its peak                  *)
(*   err     "none", or the exception that is propagating                  *)
(*   ret     the truth value returned by the last existence check          *)
(*   cnt     the number returned by the last SELECT COUNT                  *)
(*   status  Pipeline.status of the pipeline object, once it is built      *)
(*   data    the dataset the pipeline holds (source_data, transformed_data) *)
(***************************************************************************)
World(d, f, fault) ==
    [db |-> d, file |-> f, log |-> <<>>, open |-> 0, maxOpen |-> 0,
     err |-> "none", ret |-> FALSE, cnt |-> 0, fault |-> fault,
     status |-> NoStatus, data |-> NoDf]

Ok(w) == w.err = "none"
Ev(d, f, a) == [d |-> d, f |-> f, a |-> a]
Log(w, d, f, a) == [w EXCEPT !.log = Append(@, Ev(d, f, a))]
Raise(w, e) == [w EXCEPT !.err = e]
Return(w, v) == [w EXCEPT !.ret = v]

\* sequencing: the next step runs unless an exception is propagating
Try(w, Step(_)) == IF Ok(w) THEN Step(w) ELSE w

\* an except clause that re-raises: the rest runs only while w is raising
Max(a, b) == IF a >= b THEN a ELSE b


(***************************************************************************)
(* The backend: what a statement executed on an open connection does to    *)
(* the table.  A rejected statement changes nothing.                       *)
(***************************************************************************)
Execute(w, d, stmt) ==
    CASE stmt \in {"START TRANSACTION", "COMMIT", "ROLLBACK"} -> Log(w, d, "execute", stmt)
      [] stmt = "SELECT EXISTS" ->
            IF w.fault = "exists" THEN Raise(Log(w, d, "execute", stmt), "SQLAlchemyError")
            ELSE Return(Log(w, d, "execute", stmt), w.db.exists)
      [] stmt = "SELECT" ->
            IF w.fault = "exists" \/ ~w.db.exists
            THEN Raise(Log(w, d, "execute", stmt), "SQLAlchemyError")
            ELSE [Log(w, d, "execute", stmt) EXCEPT !.cnt = Len(w.db.rows)]
      [] stmt = "SELECT COUNT" ->
            IF w.fault = "exists" \/ ~w.db.exists
            THEN Raise(Log(w, d, "execute", stmt), "DriverError")
            ELSE [Log(w, d, "execute", stmt) EXCEPT !.cnt = Len(w.db.rows)]
      [] stmt \in {"TRUNCATE TABLE", "DELETE FROM"} ->
            IF w.fault = "ddl" \/ ~w.db.exists
            THEN Raise(Log(w, d, "execute", stmt), "SQLAlchemyError")
            ELSE [Log(w, d, "execute", stmt) EXCEPT !.db.rows = <<>>]
      [] stmt = "DROP TABLE IF EXISTS" ->
            IF w.fault = "ddl" THEN Raise(Log(w, d, "execute", stmt), "SQLAlchemyError")
            ELSE [Log(w, d, "execute", stmt) EXCEPT
                     !.db = [NoTable EXCEPT !.schema = w.db.schema]]
      [] OTHER -> Raise(Log(w, d, "execute", stmt), "SQLAlchemyError")

\* the table CREATE TABLE makes from a dataset's columns, holding rows
Created(cols, rows) == [schema |-> TRUE, exists |-> TRUE, cols |-> cols, rows |-> rows]

\* a to_sql that replaces the table whatever if_exists says (not the code's;
\* the row counts of repeated appends must tell the two apart)
to_sql_replace(w, df, if_exists, d) ==
    IF w.fault = "insert" \/ ~w.db.schema
    THEN Raise(Log(w, d, "to_sql", if_exists), "SQLAlchemyError")
    ELSE [Log(w, d, "to_sql", if_exists) EXCEPT !.db = Created(df.cols, df.rows)]

\* DataFrame.to_sql(table, connection, if_exists=...): creates the table from the
\* dataset's columns when it is absent; otherwise appends, replaces (drop and
\* recreate) or fails.  It runs in one transaction of its own.
to_sql(w, df, if_exists, d) ==
    IF w.fault = "insert" \/ ~w.db.schema
    THEN Raise(Log(w, d, "to_sql", if_exists), "SQLAlchemyError")
    ELSE IF ~w.db.exists \/ if_exists = "replace"
    THEN [Log(w, d, "to_sql", if_exists) EXCEPT !.db = Created(df.cols, df.rows)]
    ELSE IF if_exists = "fail" THEN Raise(Log(w, d, "to_sql", if_exists), "ValueError")
    ELSE IF w.db.cols # df.cols THEN Raise(Log(w, d, "to_sql", if_exists), "SQLAlchemyError")
    ELSE [Log(w, d, "to_sql", if_exists) EXCEPT !.db.rows = @ \o df.rows]

(***************************************************************************)
(* connectors.py: SQLConnector and its seven backends                      *)
(***************************************************************************)
\* _connect, entering the with block: engine.connect()
SQLConnector_connect(w, d) ==
    IF w.fault = "connect" THEN Raise(Log(w, d, "connect", "refused"), "SQLAlchemyError")
    ELSE [Log(w, d, "connect", "") EXCEPT !.open = @ + 1,
                                           !.maxOpen = Max(@, w.open + 1)]

\* a _connect without its finally clause: the connection is closed only when
\* the with block ends normally (not the code's; the release on a failing
\* statement must tell the two apart)
SQLConnector_close_on_success(w, d) ==
    IF Ok(w) THEN [Log(w, d, "close", "") EXCEPT !.open = @ - 1] ELSE w

\* _connect, leaving the with block (finally: connection.close()), also while
\* an exception propagates
SQLConnector_close(w, d) == [Log(w, d, "close", "") EXCEPT !.open = @ - 1]

\* the dialect's statement that removes all rows
TruncateStmt(t) == IF t = "SQLite" THEN "DELETE FROM" ELSE "TRUNCATE TABLE"

\* the dialect's catalog consulted by table_exists
ExistsCatalog(t) ==
    CASE t = "PostgreSQL" -> "to_regclass"
      [] t = "Oracle" -> "all_tables"
      [] t = "SQLite" -> "sqlite_master"
      [] OTHER -> "information_schema.tables"

\* the except clause of _execute_transaction: ROLLBACK, then re-raise
Rollback(w, d) ==
    IF Ok(w) THEN w ELSE Raise(Execute(Raise(w, "none"), d, "ROLLBACK"), w.err)

\* _execute_transaction(conn, operation): START TRANSACTION, the statement,
\* COMMIT; ROLLBACK and re-raise when any of them raises
BaseConnector_execute_transaction(w, q, d) ==
    Rollback(Try(Try(Execute(w, d, "START TRANSACTION"),
                     LAMBDA x : Execute(x, d, q)),
                 LAMBDA x : Execute(x, d, "COMMIT")), d)

\* execute_query(query): with self._connect() as conn: _execute_transaction
BaseConnector_execute_query(w, q, d) ==
    Try(SQLConnector_connect(Log(w, d, "execute_query", q), d + 1),
        LAMBDA c : SQLConnector_close(BaseConnector_execute_transaction(c, q, d + 1), d + 1))

\* table_exists(table_name): one catalog query on a connection of its own;
\* the file connectors inherit BaseConnector.table_exists
table_exists(w, t, d) ==
    IF ~is_sql_based(t)
    THEN Raise(Log(w, d, "table_exists", ExistsCatalog(t)), "NotImplementedError")
    ELSE Try(SQLConnector_connect(Log(w, d, "table_exists", ExistsCatalog(t)), d + 1),
             LAMBDA c : SQLConnector_close(Execute(c, d + 1, "SELECT EXISTS"), d + 1))

\* a truncate_table without the existence check: the statement is sent whether
\* or not the table is there (not the code's; the sequencing property of
\* truncate_and_load must tell the two apart)
truncate_table_unchecked(w, t, d) ==
    IF ~is_sql_based(t) THEN Raise(Log(w, d, "truncate_table", ""), "AttributeError")
    ELSE BaseConnector_execute_query(Log(w, d, "truncate_table", ""), TruncateStmt(t), d + 1)

\* truncate_table(table_name): truncate when the table exists, warn otherwise
\* (SQLite: DELETE FROM).  The file connectors have no such method.
truncate_table(w, t, d) ==
    IF ~is_sql_based(t) THEN Raise(Log(w, d, "truncate_table", ""), "AttributeError")
    ELSE Try(table_exists(Log(w, d, "truncate_table", ""), t, d + 1),
             LAMBDA x : IF x.ret
                        THEN BaseConnector_execute_query(x, TruncateStmt(t), d + 1)
                        ELSE Log(x, d + 1, "warning", "skipping truncate"))

\* a drop_table that sends DROP TABLE without IF EXISTS, which the database
\* rejects for a table that is not there (not the code's; the idempotence of
\* drop must tell the two apart)
drop_table_strict(w, t, d) ==
    IF ~is_sql_based(t) THEN Raise(Log(w, d, "drop_table", ""), "AttributeError")
    ELSE IF ~w.db.exists
    THEN Raise(Log(Log(w, d, "drop_table", ""), d + 1, "execute_query", "DROP TABLE"),
               "SQLAlchemyError")
    ELSE BaseConnector_execute_query(Log(w, d, "drop_table", ""),
                                     "DROP TABLE IF EXISTS", d + 1)

\* drop_table(table_name): DROP TABLE IF EXISTS.  The file connectors have no
\* such method.
drop_table(w, t, d) ==
    IF ~is_sql_based(t) THEN Raise(Log(w, d, "drop_table", ""), "AttributeError")
    ELSE BaseConnector_execute_query(Log(w, d, "drop_table", ""),
                                     "DROP TABLE IF EXISTS", d + 1)

\* SQLConnector.read(query): pd.read_sql on a connection of its own; the file
\* connectors read their file and open no connection
SQLConnector_read(w, t, d) ==
    IF ~is_sql_based(t)
    THEN IF w.file.exists THEN Log(Log(w, d, "read", ""), d + 1, "read_file", "")
         ELSE Raise(Log(Log(w, d, "read", ""), d + 1, "read_file", ""),
                    "FileNotFoundError")
    ELSE Try(SQLConnector_connect(Log(w, d, "read", "query"), d + 1),
             LAMBDA c : SQLConnector_close(Execute(c, d + 1, "SELECT"), d + 1))

\* the clearing step write() itself takes before to_sql
WriteClear(w, t, mode, d) ==
    IF mode = "truncate" THEN truncate_table(w, t, d)
    ELSE IF mode = "replace" THEN drop_table(w, t, d)
    ELSE w

\* SQLConnector.write(df, table_name, mode) and PostgreSQLConnector.write
SQLConnector_write(w, t, df, mode, d) ==
    Try(SQLConnector_connect(Log(w, d, "write", mode), d + 1),
        LAMBDA c : SQLConnector_close(
            Try(WriteClear(c, t, mode, d + 1),
                LAMBDA x : to_sql(x, df,
                                  IF mode \in {"truncate", "replace"} THEN "replace"
                                  ELSE "append", d + 1)),
            d + 1))

\* CSVConnector.write / ExcelConnector.write: df.to_csv(file_path) and
\* df.to_excel(file_path) write the file anew, whatever the mode
FileConnector_write(w, t, df, mode, d) ==
    IF w.fault = "insert"
    THEN Raise(Log(Log(w, d, "write", mode), d + 1, "to_file", "w"), "OSError")
    ELSE [Log(Log(w, d, "write", mode), d + 1, "to_file", "w") EXCEPT
             !.file = [exists |-> TRUE, cols |-> df.cols, rows |-> df.rows]]

\* connector.write(...) on the connector class registered for type t
Connector_write(w, t, df, mode, d) ==
    IF is_sql_based(t) THEN SQLConnector_write(w, t, df, mode, d)
    ELSE FileConnector_write(w, t, df, mode, d)

(***************************************************************************)
(* connectors.py: DatabaseConnector, the load-mode dispatcher              *)
(***************************************************************************)
get_connector(w, t) ==
    IF t \notin CONNECTOR_MAP
    THEN Raise(Log(w, 1, "get_connector", "unsupported"), "ValueError")
    ELSE Log(w, 1, "get_connector", t)

DatabaseConnector_read(w, t) ==
    Try(get_connector(w, t), LAMBDA x : SQLConnector_read(x, t, 1))

DatabaseConnector_append(w, t, df) ==
    Try(get_connector(w, t), LAMBDA x : Connector_write(x, t, df, "append", 1))

DatabaseConnector_truncate_and_load(w, t, df) ==
    Try(Try(get_connector(w, t),
            LAMBDA x : truncate_table(x, t, 1)),
        LAMBDA x : Connector_write(x, t, df, "append", 1))

\* a drop_and_load that leaves the dropping to write(mode='replace') alone (not
\* the code's; the sequencing property of drop_and_load must tell the two apart)
drop_and_load_write_only(w, t, df) ==
    Try(get_connector(w, t), LAMBDA x : Connector_write(x, t, df, "replace", 1))

DatabaseConnector_drop_and_load(w, t, df) ==
    Try(Try(get_connector(w, t),
            LAMBDA x : drop_table(x, t, 1)),
        LAMBDA x : Connector_write(x, t, df, "replace", 1))


(***************************************************************************)
(* runtime.py: BaseConnector, whose truncate_table the ExcelConnector and   *)
(* CSVConnector of that file inherit (its PostgreSQLConnector overrides     *)
(* read, write and truncate_table with blocks of `with engine.connect()`). *)
(***************************************************************************)
\* DatabaseConnector.CONNECTOR_MAP of runtime.py
runtime_CONNECTOR_MAP == {"Excel", "CSV", "PostgreSQL"}

\* DatabaseConnector.get_connector(connection_name) of runtime.py, for a
\* registered connection document of type t
runtime_get_connector(w, t) ==
    IF t \notin runtime_CONNECTOR_MAP
    THEN Raise(Log(w, 1, "get_connector", "unsupported"), "ValueError")
    ELSE Log(w, 1, "get_connector", t)

\* BaseConnector._connect: no class of runtime.py that inherits the methods
\* below overrides it
runtime_connect(w, d) ==
    Raise(Log(w, d, "connect", "not implemented"), "NotImplementedError")

\* BaseConnector.truncate_table: connect, execute, commit, close; the close
\* is not in a finally clause and runs only when the statement succeeded
runtime_truncate_table(w, d) ==
    Try(Try(runtime_connect(Log(w, d, "truncate_table", ""), d + 1),
            LAMBDA c : Execute(c, d + 1, "TRUNCATE TABLE")),
        LAMBDA x : SQLConnector_close(x, d + 1))

(***************************************************************************)
(* database_connectors.py: PostgresSQLHandler and MSSQLHandler.  The two    *)
(* classes share the code of every method modelled with a parameter h.     *)
(***************************************************************************)
Handlers == {"PostgresSQLHandler", "MSSQLHandler"}

batch_size == 1000

\* if not <check>: raise <e>
Require(w, e) == IF Ok(w) /\ ~w.ret THEN Raise(w, e) ELSE w

\* _connect(): the driver's connect; its error becomes a DatabaseError
Handler_connect(w, h, d) ==
    IF w.fault = "connect" THEN Raise(Log(w, d, "connect", "refused"), "DatabaseError")
    ELSE [Log(w, d, "connect", "") EXCEPT !.open = @ + 1,
                                           !.maxOpen = Max(@, w.open + 1)]

\* finally: conn.close()
Handler_close(w, d) == [Log(w, d, "close", "") EXCEPT !.open = @ - 1]

\* _schema_exists(conn, schema): SELECT COUNT(*) on the schema catalog
Handler_schema_exists(w, h, d) ==
    IF w.fault = "exists" THEN Raise(Log(w, d, "_schema_exists", ""), "DriverError")
    ELSE Return(Log(w, d, "_schema_exists", ""), w.db.schema)

\* _table_exists(conn, schema, table): SELECT COUNT(*) on the table catalog
Handler_table_exists(w, h, d) ==
    IF w.fault = "exists" THEN Raise(Log(w, d, "_table_exists", ""), "DriverError")
    ELSE Return(Log(w, d, "_table_exists", ""), w.db.exists)

\* _create_table(conn, schema, table, columns): one text column per dataset
\* column, committed.  PostgreSQL: CREATE TABLE IF NOT EXISTS; MSSQL: CREATE
\* TABLE, which the server rejects for a table that exists.
Handler_create_table(w, h, columns, d) ==
    IF w.fault = "ddl" \/ (w.db.exists /\ h = "MSSQLHandler")
    THEN Raise(Log(w, d, "_create_table", columns), "DriverError")
    ELSE IF w.db.exists THEN Log(w, d, "_create_table", columns)
    ELSE [Log(w, d, "_create_table", columns) EXCEPT !.db = Created(columns, <<>>)]

\* _validate_truncate(conn, schema, table): the table must count zero rows
Handler_validate_truncate(w, h, d) ==
    Try(Execute(Log(w, d, "_validate_truncate", ""), d + 1, "SELECT COUNT"),
        LAMBDA x : IF x.cnt # 0 THEN Raise(x, "DatabaseError") ELSE x)

\* cursor.execute(truncate_query); conn.commit()
Handler_execute_truncate(w, d) ==
    IF w.fault = "ddl" \/ ~w.db.exists
    THEN Raise(Log(w, d, "execute", "TRUNCATE TABLE"), "DriverError")
    ELSE [Log(w, d, "execute", "TRUNCATE TABLE") EXCEPT !.db.rows = <<>>]

\* truncate_table(schema, table), inside its try block
Handler_truncate_table_body(w, h, d) ==
    Try(Try(Try(Require(Handler_schema_exists(w, h, d + 1), "DatabaseError"),
                LAMBDA x : Require(Handler_table_exists(x, h, d + 1), "DatabaseError")),
            LAMBDA x : Handler_execute_truncate(x, d + 1)),
        LAMBDA x : Handler_validate_truncate(x, h, d + 1))

\* truncate_table(schema, table): connect, try the body, finally close
Handler_truncate_table(w, h, d) ==
    Try(Handler_connect(Log(w, d, "truncate_table", ""), h, d + 1),
        LAMBDA c : Handler_close(Handler_truncate_table_body(c, h, d), d + 1))

\* _validate_drop(conn, schema, table): the table must be gone
Handler_validate_drop(w, h, d) ==
    Try(Handler_table_exists(Log(w, d, "_validate_drop", ""), h, d + 1),
        LAMBDA x : IF x.ret THEN Raise(x, "DatabaseError") ELSE x)

\* cursor.execute(drop_query); conn.commit()
Handler_execute_drop(w, d) ==
    IF w.fault = "ddl" THEN Raise(Log(w, d, "execute", "DROP TABLE IF EXISTS"), "DriverError")
    ELSE [Log(w, d, "execute", "DROP TABLE IF EXISTS") EXCEPT
             !.db = [NoTable EXCEPT !.schema = w.db.schema]]

\* drop_table(schema, table), inside its try block
Handler_drop_table_body(w, h, d) ==
    Try(Try(Require(Handler_schema_exists(w, h, d + 1), "DatabaseError"),
            LAMBDA x : Handler_execute_drop(x, d + 1)),
        LAMBDA x : Handler_validate_drop(x, h, d + 1))

\* drop_table(schema, table): connect, try the body, finally close
Handler_drop_table(w, h, d) ==
    Try(Handler_connect(Log(w, d, "drop_table", ""), h, d + 1),
        LAMBDA c : Handler_close(Handler_drop_table_body(c, h, d), d + 1))

\* the number of batches range(0, len(data), batch_size) yields
Batches(n) == (n + batch_size - 1) \div batch_size

\* MSSQLHandler._insert_data: executemany per batch of batch_size rows, commit
\* per batch; a failing batch is logged and the loop goes on
MSSQLHandler_insert_data(w, data, d) ==
    IF Batches(Len(data.rows)) = 0 THEN Log(w, d, "_insert_data", "")
    ELSE IF w.fault = "insert" \/ ~w.db.exists \/ w.db.cols # data.cols
    THEN Log(Log(w, d, "_insert_data", ""), d + 1, "error", "batch failed")
    ELSE [Log(w, d, "_insert_data", "") EXCEPT !.db.rows = @ \o data.rows]

\* MSSQLHandler._validate_write(conn, schema, table, expected_rows, mode)
MSSQLHandler_validate_write(w, expected_rows, mode, d) ==
    Try(Execute(Log(w, d, "_validate_write", mode), d + 1, "SELECT COUNT"),
        LAMBDA x : IF mode # "append" /\ x.cnt # expected_rows
                   THEN Raise(x, "DatabaseError") ELSE x)

\* PostgresSQLHandler._validate_write(self, conn, schema, table, expected_rows)
\* takes four arguments after self; with four it reads the undefined name mode
PostgresSQLHandler_validate_write(w, nargs, d) ==
    IF nargs # 4 THEN Raise(Log(w, d, "_validate_write", ""), "TypeError")
    ELSE Try(Execute(Log(w, d, "_validate_write", ""), d + 1, "SELECT COUNT"),
             LAMBDA x : Raise(x, "NameError"))

\* the insert of write_data: data.to_sql(if_exists='append') on PostgreSQL,
\* _insert_data on MSSQL
Handler_insert(w, h, data, d) ==
    IF h = "MSSQLHandler" THEN MSSQLHandler_insert_data(w, data, d)
    ELSE to_sql(w, data, "append", d)

\* the call write_data makes to _validate_write: PostgresSQLHandler passes
\* (conn, schema, table, len(data), mode), five arguments
Handler_validate_write(w, h, data, mode, d) ==
    IF h = "MSSQLHandler" THEN MSSQLHandler_validate_write(w, Len(data.rows), mode, d)
    ELSE PostgresSQLHandler_validate_write(w, 5, d)

\* write_data, the branch on mode: append inserts; replace truncates on a
\* connection of its own and inserts; any other mode inserts nothing
Handler_write_mode(w, h, data, mode, d) ==
    IF mode = "append" THEN Handler_insert(w, h, data, d)
    ELSE IF mode = "replace"
    THEN Try(Handler_truncate_table(w, h, d), LAMBDA x : Handler_insert(x, h, data, d))
    ELSE w

\* write_data(data, schema, table, mode), inside its try block
Handler_write_data_body(w, h, data, mode, d) ==
    Try(Try(Try(Try(Require(Handler_schema_exists(w, h, d + 1), "DatabaseError"),
                    LAMBDA x : Handler_table_exists(x, h, d + 1)),
                LAMBDA x : IF x.ret THEN x
                           ELSE Handler_create_table(x, h, data.cols, d + 1)),
            LAMBDA x : Handler_write_mode(x, h, data, mode, d + 1)),
        LAMBDA x : Handler_validate_write(x, h, data, mode, d + 1))

\* write_data(data, schema, table, mode): connect, try the body, finally close
Handler_write_data(w, h, data, mode, d) ==
    Try(Handler_connect(Log(w, d, "write_data", mode), h, d + 1),
        LAMBDA c : Handler_close(Handler_write_data_body(c, h, data, mode, d), d + 1))

Handler_append_data(w, h, data) ==
    Handler_write_data(Log(w, 1, "append_data", h), h, data, "append", 2)

Handler_truncate_and_load(w, h, data) ==
    Try(Handler_truncate_table(Log(w, 1, "truncate_and_load", h), h, 2),
        LAMBDA x : Handler_write_data(x, h, data, "append", 2))

Handler_drop_and_load(w, h, data) ==
    Try(Handler_drop_table(Log(w, 1, "drop_and_load", h), h, 2),
        LAMBDA x : Handler_write_data(x, h, data, "append", 2))


(***************************************************************************)
(* The state machine of the connector level: every action is one call of   *)
(* a public operation of connectors.py or database_connectors.py on the    *)
(* target of type backend.                                                 *)
(***************************************************************************)
OldRows(k) == [i \in 1..k |-> 0]

InitTables ==
    {NoTable, [NoTable EXCEPT !.schema = FALSE]}
    \cup [schema : {TRUE}, exists : {TRUE}, cols : ColTags,
          rows : {OldRows(k) : k \in 0..MaxOld}]

InitFiles ==
    {NoFile} \cup [exists : {TRUE}, cols : ColTags, rows : {OldRows(k) : k \in 0..MaxOld}]

NoLast ==
    [op |-> "none", api |-> "none", df |-> NoDf, fault |-> "none",
     pre |-> NoTable, prefile |-> NoFile, log |-> <<>>, err |-> "none",
     ret |-> FALSE, open |-> 0, maxOpen |-> 0,
     name |-> "none", src_ok |-> FALSE, status |-> NoStatus,
     arg |-> <<>>, out |-> <<>>]

\* the number of rows the target medium of the backend holds
TargetLen(t, d, f) == IF is_sql_based(t) THEN Len(d.rows) ELSE Len(f.rows)

\* no operation is in progress or waiting for its caller to take the outcome
Idle == last.op = "none"

\* the record of a finished operation, and the target as the operation left it
Finish(op, api, df, fault, w) ==
    /\ Idle
    /\ db' = w.db
    /\ file' = w.file
    /\ last' = [NoLast EXCEPT !.op = op, !.api = api, !.df = df, !.fault = fault,
                              !.pre = db, !.prefile = file, !.log = w.log,
                              !.err = w.err, !.ret = w.ret, !.open = w.open,
                              !.maxOpen = w.maxOpen]
    /\ UNCHANGED <<backend, folder, pipelines>>

Fits(df) == TargetLen(backend, db, file) + Len(df.rows) <= MaxRows

HandlerOf(t) ==
    CASE t = "PostgreSQL" -> "PostgresSQLHandler"
      [] t = "MSSQL" -> "MSSQLHandler"
      [] OTHER -> "none"

Init ==
    /\ backend \in CONNECTOR_MAP
    /\ db \in (IF is_sql_based(backend) THEN InitTables ELSE {NoTable})
    /\ file \in (IF is_sql_based(backend) THEN {NoFile} ELSE InitFiles)
    /\ folder = <<>>
    /\ pipelines = {}
    /\ last = NoLast

AppendLoad ==
    \E df \in DataFrames, fault \in Faults :
        /\ Fits(df)
        /\ Finish("append", "connectors", df, fault,
                  DatabaseConnector_append(World(db, file, fault), backend, df))

TruncateAndLoad ==
    \E df \in DataFrames, fault \in Faults :
        /\ Fits(df)
        /\ Finish("truncate_and_load", "connectors", df, fault,
                  DatabaseConnector_truncate_and_load(World(db, file, fault), backend, df))

DropAndLoad ==
    \E df \in DataFrames, fault \in Faults :
        /\ Fits(df)
        /\ Finish("drop_and_load", "connectors", df, fault,
                  DatabaseConnector_drop_and_load(World(db, file, fault), backend, df))

TableExists ==
    \E fault \in Faults :
        Finish("table_exists", "connectors", NoDf, fault,
               table_exists(World(db, file, fault), backend, 1))

TruncateTable ==
    \E fault \in Faults :
        Finish("truncate_table", "connectors", NoDf, fault,
               truncate_table(World(db, file, fault), backend, 1))

DropTable ==
    \E fault \in Faults :
        Finish("drop_table", "connectors", NoDf, fault,
               drop_table(World(db, file, fault), backend, 1))

HandlerAppendData ==
    \E df \in DataFrames, fault \in Faults :
        /\ HandlerOf(backend) # "none"
        /\ Fits(df)
        /\ Finish("append", "handler", df, fault,
                  Handler_append_data(World(db, file, fault), HandlerOf(backend), df))

HandlerTruncateAndLoad ==
    \E df \in DataFrames, fault \in Faults :
        /\ HandlerOf(backend) # "none"
        /\ Fits(df)
        /\ Finish("truncate_and_load", "handler", df, fault,
                  Handler_truncate_and_load(World(db, file, fault), HandlerOf(backend), df))

HandlerDropAndLoad ==
    \E df \in DataFrames, fault \in Faults :
        /\ HandlerOf(backend) # "none"
        /\ Fits(df)
        /\ Finish("drop_and_load", "handler", df, fault,
                  Handler_drop_and_load(World(db, file, fault), HandlerOf(backend), df))

HandlerTruncateTable ==
    \E fault \in Faults :
        /\ HandlerOf(backend) # "none"
        /\ Finish("truncate_table", "handler", NoDf, fault,
                  Handler_truncate_table(World(db, file, fault), HandlerOf(backend), 1))

HandlerDropTable ==
    \E fault \in Faults :
        /\ HandlerOf(backend) # "none"
        /\ Finish("drop_table", "handler", NoDf, fault,
                  Handler_drop_table(World(db, file, fault), HandlerOf(backend), 1))

\* type names no connector is registered for ('csv': the lookup is
\* case-sensitive)
UnknownTypes == {"Mongo", "csv"}

\* DatabaseConnector.read(connector_type, config, query)
Read ==
    \E t \in {backend} \cup UnknownTypes, fault \in Faults :
        LET w == DatabaseConnector_read(World(db, file, fault), t) IN
        /\ Idle
        /\ last' = [NoLast EXCEPT !.op = "read", !.api = "connectors",
                                  !.fault = fault, !.pre = db, !.prefile = file,
                                  !.log = w.log, !.err = w.err, !.open = w.open,
                                  !.maxOpen = w.maxOpen, !.arg = <<t>>]
        /\ UNCHANGED <<backend, db, file, folder, pipelines>>

\* get_connector(connection_name) of runtime.py on a connection of type t
RuntimeGetConnector ==
    \E t \in {backend} \cup UnknownTypes :
        LET w == runtime_get_connector(World(db, file, "none"), t) IN
        /\ Idle
        /\ last' = [NoLast EXCEPT !.op = "get_connector", !.api = "runtime",
                                  !.pre = db, !.prefile = file,
                                  !.log = w.log, !.err = w.err, !.arg = <<t>>]
        /\ UNCHANGED <<backend, db, file, folder, pipelines>>

\* truncate_table(table_name) on an ExcelConnector or CSVConnector of runtime.py
RuntimeTruncateTable ==
    \E fault \in Faults :
        /\ backend \in FileTypes
        /\ Finish("truncate_table", "runtime", NoDf, fault,
                  runtime_truncate_table(World(db, file, fault), 1))

\* the caller has taken the outcome of the operation and goes on
Resume ==
    /\ ~Idle
    /\ last' = NoLast
    /\ UNCHANGED <<backend, db, file, folder, pipelines>>

Next ==
    \/ AppendLoad
    \/ TruncateAndLoad
    \/ DropAndLoad
    \/ TableExists
    \/ TruncateTable
    \/ DropTable
    \/ HandlerAppendData
    \/ HandlerTruncateAndLoad
    \/ HandlerDropAndLoad
    \/ HandlerTruncateTable
    \/ HandlerDropTable
    \/ Read
    \/ RuntimeGetConnector
    \/ RuntimeTruncateTable
    \/ Resume

Spec == Init /\ [][Next]_vars



(***************************************************************************)
(* pipelines.py: ConfigLoader, Pipeline, PipelineManager                   *)
(***************************************************************************)
required_keys == <<"name", "source", "target", "transformations">>

\* the connection documents of the connections folder, by name; the source
\* connection is a delimited file, the target connection is of type backend
Registry == {"src", "tgt"}
ConnType(name) == IF name = "src" THEN "CSV" ELSE backend

\* values of target.action in a pipeline document
TargetActions == {"append", "truncate_and_load", "drop_and_load", "replace", "upsert"}

\* a pipeline document: the top-level keys it has, and their values
DefaultCfg ==
    [name |-> "p1", enabled |-> TRUE,
     keys |-> {"name", "source", "target", "transformations"},
     source_connection |-> "src", target_connection |-> "tgt",
     action |-> "append", table_name |-> TRUE, transformations |-> <<>>]

Cfgs ==
    {[DefaultCfg EXCEPT !.action = a, !.transformations = t] :
        a \in TargetActions, t \in {<<>>, <<"add_timestamp">>}}
    \cup {[DefaultCfg EXCEPT !.action = a, !.target_connection = "nosuch"] :
            a \in {"append", "upsert"}}
    \cup {[DefaultCfg EXCEPT !.action = a, !.source_connection = "nosuch"] :
            a \in {"append", "upsert"}}
    \cup {[DefaultCfg EXCEPT !.table_name = FALSE]}
    \cup {[DefaultCfg EXCEPT !.keys = @ \ {k}] : k \in DefaultCfg.keys}
    \cup {[DefaultCfg EXCEPT !.enabled = FALSE]}

\* what reading the source medium gives: a dataset, or a failure
Sources ==
    {[ok |-> FALSE, df |-> NoDf]}
    \cup {[ok |-> TRUE, df |-> [cols |-> "A", rows |-> DfRows(n)]] : n \in 0..MaxDf}

\* a file of a folder: its extension, what yaml.safe_load makes of it (a
\* mapping, a YAMLError, or None for an empty file) and the mapping
YamlFile(c) == [ext |-> ".yaml", yaml |-> "ok", doc |-> c]

\* the entry of a loader's log
Msg(level, text) == [level |-> level, text |-> text]

\* what a loader has after some files: the table, its log, and the exception
\* that is propagating, if any
Loading == [table |-> {}, log |-> <<>>, err |-> "none"]

\* self.pipelines[name] = config, self.connections[name] = config
Register(table, doc) == {x \in table : x.name # doc.name} \cup {doc}

\* load_pipelines, the try block for one file: yaml.safe_load raises YAMLError
\* on a malformed file; an empty file loads as None and the test for 'name'
\* raises TypeError; a mapping without 'name' is logged; an enabled mapping is
\* stored under its name
load_pipelines_try(acc, f) ==
    CASE f.yaml = "error" -> [acc EXCEPT !.err = "YAMLError"]
      [] f.yaml = "empty" -> [acc EXCEPT !.err = "TypeError"]
      [] "name" \notin f.doc.keys ->
            [acc EXCEPT !.log = Append(@, Msg("error", "missing 'name' key"))]
      [] ~f.doc.enabled -> acc
      [] OTHER ->
            [acc EXCEPT !.table = Register(@, f.doc),
                        !.log = Append(@, Msg("info", "Loaded pipeline configuration"))]

\* except clauses that let the exception of a file through
load_reraise(acc) == acc

\* the except clauses of load_pipelines: YAMLError, then Exception
load_pipelines_except(acc) ==
    CASE acc.err = "none" -> acc
      [] acc.err = "YAMLError" ->
            [acc EXCEPT !.log = Append(@, Msg("error", "Error parsing YAML file")),
                        !.err = "none"]
      [] OTHER ->
            [acc EXCEPT !.log = Append(@, Msg("error", "Error loading pipeline config")),
                        !.err = "none"]

\* load_pipelines, one file of the listing: only .yaml files are opened
load_pipeline_file(acc, f) ==
    IF f.ext # ".yaml" THEN acc ELSE load_pipelines_except(load_pipelines_try(acc, f))

RECURSIVE load_pipelines_from(_, _, _)
load_pipelines_from(files, i, acc) ==
    IF i > Len(files) \/ acc.err # "none" THEN acc
    ELSE load_pipelines_from(files, i + 1, load_pipeline_file(acc, files[i]))

\* PipelineManager.load_pipelines: the files of the folder, one after the other
load_pipelines(files) == load_pipelines_from(files, 1, Loading)

\* load_connections, the try block for one file: as for pipelines, but every
\* mapping with a name is stored
load_connections_try(acc, f) ==
    CASE f.yaml = "error" -> [acc EXCEPT !.err = "YAMLError"]
      [] f.yaml = "empty" -> [acc EXCEPT !.err = "TypeError"]
      [] "name" \notin f.doc.keys ->
            [acc EXCEPT !.log = Append(@, Msg("error", "missing 'name' key"))]
      [] OTHER ->
            [acc EXCEPT !.table = Register(@, f.doc),
                        !.log = Append(@, Msg("info", "Loaded connection config"))]

\* the except clause of load_connections: Exception
load_connections_except(acc) ==
    IF acc.err = "none" THEN acc
    ELSE [acc EXCEPT !.log = Append(@, Msg("error", "Error loading connection config")),
                     !.err = "none"]

\* load_connections, one file of the listing
load_connection_file(acc, f) ==
    IF f.ext # ".yaml" THEN acc
    ELSE load_connections_except(load_connections_try(acc, f))

RECURSIVE load_connections_from(_, _, _)
load_connections_from(files, i, acc) ==
    IF i > Len(files) \/ acc.err # "none" THEN acc
    ELSE load_connections_from(files, i + 1, load_connection_file(acc, files[i]))

\* ConfigLoader.load_connections: nothing is loaded from a folder that does
\* not exist
load_connections(exists, files) ==
    IF ~exists
    THEN [Loading EXCEPT !.log = <<Msg("error", "Connections folder does not exist")>>]
    ELSE load_connections_from(files, 1, Loading)

\* ConfigLoader.get_config_by_name
get_config_by_name(w, connector_name) ==
    IF connector_name \notin Registry
    THEN Raise(Log(w, 3, "error", "connection not found"), "ValueError: Connection not found")
    ELSE w

\* an error handler that records nothing
handle_error_swallow(w, error_type) ==
    [Log(w, 3, "handle_error", error_type) EXCEPT !.err = "none"]

\* an error handler that appends the message and leaves success as it is
handle_error_keep_success(w, error_type) ==
    [Log(w, 3, "handle_error", error_type) EXCEPT
        !.status.errors = Append(@, <<error_type, w.err>>),
        !.err = "none"]

\* Pipeline.handle_error(error_type, error): the exception at hand is recorded
handle_error(w, error_type) ==
    [Log(w, 3, "handle_error", error_type) EXCEPT
        !.status.success = FALSE,
        !.status.errors = Append(@, <<error_type, w.err>>),
        !.err = "none"]

\* a constructor that accepts every descriptor
validate_config_unchecked(w, c) == Log(w, 3, "validate_config", "")

\* Pipeline.validate_config: the first required key that is missing raises
validate_config(w, c) ==
    IF \E i \in 1..Len(required_keys) : required_keys[i] \notin c.keys
    THEN Raise(Log(w, 3, "validate_config", "missing key"),
               "ValueError: Missing required configuration key")
    ELSE Log(w, 3, "validate_config", "")

\* Pipeline.setup_target: the action is stored as it is; the target connection
\* is looked up; a SQL target needs table_name
setup_target(w, c) ==
    Try(get_config_by_name(Log(w, 3, "setup_target", c.action), c.target_connection),
        LAMBDA x : IF ConnType(c.target_connection) \notin {"CSV", "Excel"} /\ ~c.table_name
                   THEN Raise(x, "ValueError: Missing required configuration key")
                   ELSE x)

\* Pipeline.__init__: validate_config, ConfigLoader, setup_source,
\* setup_target, then the status record
Pipeline_init(w, c) ==
    Try(Try(validate_config(Log(w, 2, "Pipeline", c.name), c),
            LAMBDA x : setup_target(Log(Log(x, 3, "load_connections", ""),
                                        3, "setup_source", ""), c)),
        LAMBDA x : [x EXCEPT !.status = [built |-> TRUE, success |-> TRUE,
                                         errors |-> <<>>, source_rows |-> 0,
                                         target_rows |-> 0]])

\* CSVHandler.read_data / ExcelHandler.read_data: the whole file as a dataset
FileHandler_read_data(w, src) ==
    IF ~src.ok THEN Raise(Log(w, 4, "read_data", ""), "FormatError")
    ELSE [Log(w, 4, "read_data", "") EXCEPT !.data = src.df]

\* CSVHandler.write_data / ExcelHandler.write_data(df, mode)
FileHandler_write_data(w, df, mode) ==
    IF w.fault = "insert" THEN Raise(Log(w, 4, "write_data", mode), "OSError")
    ELSE IF mode = "replace" \/ ~w.file.exists
    THEN [Log(w, 4, "write_data", mode) EXCEPT
             !.file = [exists |-> TRUE, cols |-> df.cols, rows |-> df.rows]]
    ELSE IF w.file.cols # df.cols THEN Raise(Log(w, 4, "write_data", mode), "FormatError")
    ELSE [Log(w, 4, "write_data", mode) EXCEPT !.file.rows = @ \o df.rows]

\* process_request(..., db_type, method, df): the load-mode dispatcher
process_request(w, db_type, method, df) ==
    CASE method = "append" ->
            DatabaseConnector_append(Log(w, 4, "process_request", method), db_type, df)
      [] method = "truncate_and_load" ->
            DatabaseConnector_truncate_and_load(Log(w, 4, "process_request", method),
                                                db_type, df)
      [] method = "drop_and_load" ->
            DatabaseConnector_drop_and_load(Log(w, 4, "process_request", method),
                                            db_type, df)
      [] OTHER -> Raise(Log(w, 4, "process_request", method), "ValueError: Unsupported method")

\* the except clauses of read_source: the failure is recorded and an empty
\* dataset returned
read_source_except(w) ==
    IF Ok(w) THEN w
    ELSE [handle_error(w, "Error reading source data") EXCEPT !.data = NoDf]

\* Pipeline.read_source, inside its try block
read_source_body(w, c, src) ==
    Try(get_config_by_name(w, c.source_connection),
        LAMBDA x : FileHandler_read_data(x, src))

\* Pipeline.read_source
read_source(w, c, src) ==
    read_source_except(read_source_body(Log(w, 3, "read_source", ""), c, src))

\* transformations.transform(self, df): reads self.config, then applies
\* self.apply_transformation to df for every step.  A dataset has no attribute
\* config, and a Pipeline has no method apply_transformation.
transform(w, self_kind, steps) ==
    IF self_kind # "Pipeline" \/ steps # <<>>
    THEN Raise(Log(w, 4, "transform", self_kind), "AttributeError")
    ELSE Log(w, 4, "transform", self_kind)

\* Pipeline.transform_data: transform(self.source_data, transformations), so
\* the dataset is bound to self and the list of steps to df
transform_data(w, c) ==
    transform(Log(w, 3, "transform_data", ""), "DataFrame", c.transformations)

\* write_target, the branch on the type of the target connection
write_target_dispatch(w, c, df) ==
    IF ConnType(c.target_connection) \in {"CSV", "Excel"}
    THEN (IF c.action \notin {"replace", "append"}
          THEN Raise(w, "ValueError: Unsupported action")
          ELSE FileHandler_write_data(w, df, c.action))
    ELSE (IF c.action \notin {"append", "truncate_and_load", "drop_and_load"}
          THEN Raise(w, "ValueError: Unsupported action")
          ELSE process_request(w, ConnType(c.target_connection), c.action, df))

\* Pipeline.write_target(df, columns), inside its try block
write_target_body(w, c, df) ==
    Try(Try(get_config_by_name(w, c.target_connection),
            LAMBDA x : write_target_dispatch(x, c, df)),
        LAMBDA x : [x EXCEPT !.status.target_rows = Len(df.rows)])

\* the except clauses of write_target: a DatabaseError is recorded; any other
\* exception is recorded and target_rows set to 0
write_target_except(w) ==
    IF Ok(w) THEN w
    ELSE IF w.err = "DatabaseError"
    THEN handle_error(w, "Database error writing target data")
    ELSE [handle_error(w, "Error writing target data") EXCEPT !.status.target_rows = 0]

\* Pipeline.write_target
write_target(w, c, df) ==
    write_target_except(write_target_body(Log(w, 3, "write_target", c.action), c, df))

\* run: self.status["source_rows"] = len(self.source_data)
set_source_rows(w) == [w EXCEPT !.status.source_rows = Len(w.data.rows)]

\* a run that writes what it read before it transforms it
run_body_write_first(w, c, src) ==
    Try(write_target(set_source_rows(read_source(w, c, src)), c, src.df),
        LAMBDA x : transform_data(x, c))

\* a run that goes on to the write stage when the transform has raised
run_body_ignore_failure(w, c, src) ==
    Raise(write_target(Raise(transform_data(set_source_rows(read_source(w, c, src)), c),
                             "none"), c, src.df),
          "AttributeError")

\* Pipeline.run, inside its try block
run_body(w, c, src) ==
    Try(transform_data(set_source_rows(read_source(w, c, src)), c),
        LAMBDA x : IF Len(x.data.rows) # 0 THEN write_target(x, c, x.data) ELSE x)

\* the except clause of run
run_except(w) == IF Ok(w) THEN w ELSE handle_error(w, "Pipeline run failed")

\* Pipeline.run: an exception of the body is recorded; the summary is logged
\* in the finally block
Pipeline_run(w, c, src) ==
    Log(run_except(run_body(Log(w, 2, "run", c.name), c, src)), 3, "log_summary", "")

\* self.pipelines[pipeline_name]
pipeline_config(pipeline_name) == CHOOSE x \in pipelines : x.name = pipeline_name

\* a manager that constructs a pipeline for whatever name it is given
run_pipeline_any(w, pipeline_name, src) ==
    Try(Pipeline_init(Log(w, 1, "run_pipeline", pipeline_name), DefaultCfg),
        LAMBDA x : Pipeline_run(x, DefaultCfg, src))

\* PipelineManager.run_pipeline(pipeline_name)
run_pipeline(w, pipeline_name, src) ==
    IF \E x \in pipelines : x.name = pipeline_name
    THEN Try(Pipeline_init(Log(w, 1, "run_pipeline", pipeline_name),
                           pipeline_config(pipeline_name)),
             LAMBDA x : Pipeline_run(x, pipeline_config(pipeline_name), src))
    ELSE Log(Log(w, 1, "run_pipeline", pipeline_name), 2, "error", "pipeline not found")

\* run_schedule, the loop over schedule_config.get('pipelines', []): a name of
\* the table is handed to run_pipeline, any other name is logged; an exception
\* leaves the loop
RECURSIVE run_schedule_from(_, _, _, _)
run_schedule_from(w, names, i, src) ==
    IF i > Len(names) \/ ~Ok(w) THEN w
    ELSE run_schedule_from(
             IF \E x \in pipelines : x.name = names[i]
             THEN run_pipeline(w, names[i], src)
             ELSE Log(w, 1, "error", "pipeline in schedule not found"),
             names, i + 1, src)

\* the except clauses of run_schedule: the exception is logged and dropped
run_schedule_except(w) ==
    IF Ok(w) THEN w
    ELSE Raise(Log(w, 1, "error", "error loading schedule config"), "none")

\* PipelineManager.run_schedule(schedule_name), for a schedule file that
\* exists or not and lists names
run_schedule(w, exists, names, src) ==
    IF exists
    THEN run_schedule_except(run_schedule_from(Log(w, 0, "run_schedule", ""),
                                               names, 1, src))
    ELSE Log(Log(w, 0, "run_schedule", ""), 1, "error", "schedule not found")

(***************************************************************************)
(* The state machine of the pipeline level: the manager has loaded the     *)
(* documents of its folder; every action is one call of run_pipeline.      *)
(***************************************************************************)
PipelineNames == {"p1", "ghost"}

\* folders of two pipeline documents: p1, sound or naming a target connection
\* that is not registered, and p2
SecondCfg == [DefaultCfg EXCEPT !.name = "p2"]
FirstCfgs == {DefaultCfg, [DefaultCfg EXCEPT !.target_connection = "nosuch"]}

\* the lists of names of a schedule document
Schedules == {<<>>, <<"p1", "p2">>, <<"p2", "p1">>, <<"ghost", "p2">>, <<"p1", "ghost">>}
PipeFaults == {"none", "connect", "insert"}

InitP ==
    /\ backend \in CONNECTOR_MAP
    /\ db \in (IF is_sql_based(backend) THEN InitTables ELSE {NoTable})
    /\ file \in (IF is_sql_based(backend) THEN {NoFile} ELSE InitFiles)
    /\ folder \in {<<YamlFile(c)>> : c \in Cfgs} \cup {<<>>}
                 \cup {<<YamlFile(c), YamlFile(SecondCfg)>> : c \in FirstCfgs}
    /\ pipelines = load_pipelines(folder).table
    /\ last = NoLast

\* the record of a finished run_pipeline, and the target as it left it
FinishP(op, name, arg, src, fault, w) ==
    /\ Idle
    /\ db' = w.db
    /\ file' = w.file
    /\ last' = [NoLast EXCEPT !.op = op, !.api = "pipelines", !.arg = arg,
                              !.df = src.df, !.fault = fault, !.name = name,
                              !.src_ok = src.ok,
                              !.pre = db, !.prefile = file, !.log = w.log,
                              !.err = w.err, !.open = w.open, !.maxOpen = w.maxOpen,
                              !.status = w.status]
    /\ UNCHANGED <<backend, folder, pipelines>>

RunPipeline ==
    \E name \in PipelineNames, src \in Sources, fault \in PipeFaults :
        FinishP("run_pipeline", name, <<>>, src, fault,
                run_pipeline(World(db, file, fault), name, src))

\* Pipeline(config, connections_folder, utilities_folder), constructed directly
\* from a descriptor as pipelines_test.py does: the way a descriptor that the
\* manager does not register reaches the constructor
ConstructPipeline ==
    \E c \in Cfgs :
        /\ load_pipelines(<<YamlFile(c)>>).table = {}
        /\ FinishP("Pipeline", c.name, c, [ok |-> FALSE, df |-> NoDf], "none",
                   Pipeline_init(World(db, file, "none"), c))

\* Pipeline.write_target(df, columns) called on the pipeline object of a
\* registered descriptor
WriteTarget ==
    \E c \in pipelines, df \in {x.df : x \in {y \in Sources : y.ok}}, fault \in PipeFaults :
        /\ Fits(df)
        /\ Ok(Pipeline_init(World(db, file, fault), c))
        /\ FinishP("write_target", c.name, c, [ok |-> TRUE, df |-> df], fault,
                   write_target(Pipeline_init(World(db, file, fault), c), c, df))

\* PipelineManager.run_schedule(schedule_name)
RunSchedule ==
    \E names \in Schedules, exists \in BOOLEAN, src \in Sources :
        /\ ~exists => names = <<>>
        /\ FinishP("run_schedule", IF exists THEN "found" ELSE "missing", names, src,
                   "none", run_schedule(World(db, file, "none"), exists, names, src))

NextP ==
    \/ RunPipeline
    \/ ConstructPipeline
    \/ WriteTarget
    \/ RunSchedule
    \/ Resume

SpecP == InitP /\ [][NextP]_vars

(***************************************************************************)
(* The loaders on their own: a folder of documents, from which a           *)
(* PipelineManager (load_pipelines) or a ConfigLoader (load_connections)   *)
(* is constructed.                                                         *)
(***************************************************************************)
\* the mappings of the documents: two names, enabled or not, or no name
LoaderDocs ==
    {[DefaultCfg EXCEPT !.name = n, !.enabled = e] : n \in {"p1", "p2"}, e \in BOOLEAN}
    \cup {[DefaultCfg EXCEPT !.keys = @ \ {"name"}]}

LoaderFiles ==
    {YamlFile(c) : c \in LoaderDocs}
    \cup {[YamlFile(DefaultCfg) EXCEPT !.yaml = y] : y \in {"error", "empty"}}
    \cup {[YamlFile(DefaultCfg) EXCEPT !.ext = ".txt"]}

Folders == UNION {[1..n -> LoaderFiles] : n \in 0..MaxDocs}

InitL ==
    /\ backend = "CSV"
    /\ db = NoTable
    /\ file = NoFile
    /\ folder \in Folders
    /\ pipelines = {}
    /\ last = NoLast

\* PipelineManager(pipeline_folder, ...): the constructor loads the folder
NewPipelineManager ==
    /\ Idle
    /\ pipelines' = load_pipelines(folder).table
    /\ last' = [NoLast EXCEPT !.op = "load_pipelines",
                              !.log = load_pipelines(folder).log,
                              !.err = load_pipelines(folder).err,
                              !.out = load_pipelines(folder).table]
    /\ UNCHANGED <<backend, db, file, folder>>

\* ConfigLoader(connections_folder): the constructor loads the folder
NewConfigLoader ==
    \E exists \in BOOLEAN :
        /\ Idle
        /\ last' = [NoLast EXCEPT !.op = "load_connections", !.arg = exists,
                                  !.log = load_connections(exists, folder).log,
                                  !.err = load_connections(exists, folder).err,
                                  !.out = load_connections(exists, folder).table]
        /\ UNCHANGED <<backend, db, file, folder, pipelines>>

NextL ==
    \/ NewPipelineManager
    \/ NewConfigLoader
    \/ Resume

SpecL == InitL /\ [][NextL]_vars

(***************************************************************************)
(* transformations.py.  A Python str is the sequence of its characters; a  *)
(* cell of a dataset holds a str or None.                                  *)
(***************************************************************************)
\* the decimal digits 0-9, and a character that is a digit to str.isdigit
\* without being a decimal digit: str.isdigit is true for every character of
\* Unicode Numeric_Type Digit or Decimal, U+00B2 SUPERSCRIPT TWO among them
DecimalDigits == {"0", "1", "2", "3", "4", "5", "6", "7", "8", "9"}
OtherDigits == {"SUPERSCRIPT TWO"}
str_isdigit(ch) == ch \in DecimalDigits \cup OtherDigits

Str(s) == [t |-> "str", s |-> s]

\* the sequences of up to n elements of a set
Strings(chars, n) == UNION {[1..k -> chars] : k \in 0..n}
None == [t |-> "None", s |-> <<>>]

\* str(phone)
Py_str(v) == IF v.t = "None" THEN <<"N", "o", "n", "e">> ELSE v.s

\* standardize_phone(self, phone): ''.join(filter(str.isdigit, str(phone)))
standardize_phone(phone) == SelectSeq(Py_str(phone), str_isdigit)

\* the characters of column names; \w matches letters, digits and '_'
NameChars == {"a", "A", "_", " ", "-"}
WordChars == {"a", "A", "b", "B", "_"} \cup DecimalDigits
Upper(ch) == CASE ch = "a" -> "A" [] ch = "b" -> "B" [] OTHER -> ch
Lower(ch) == CASE ch = "A" -> "a" [] ch = "B" -> "b" [] OTHER -> ch

\* re.sub of a pattern X+ by rep, X a set of characters: every maximal run of
\* characters of X becomes one rep
RECURSIVE SubRuns(_, _, _)
SubRuns(s, X, r) ==
    IF s = <<>> THEN <<>>
    ELSE IF Head(s) \notin X THEN <<Head(s)>> \o SubRuns(Tail(s), X, r)
    ELSE IF Len(s) > 1 /\ s[2] \in X THEN SubRuns(Tail(s), X, r)
    ELSE <<r>> \o SubRuns(Tail(s), X, r)

\* str.strip(ch)
RECURSIVE LStrip(_, _)
LStrip(s, ch) == IF s # <<>> /\ Head(s) = ch THEN LStrip(Tail(s), ch) ELSE s
RECURSIVE RStrip(_, _)
RStrip(s, ch) ==
    IF s # <<>> /\ s[Len(s)] = ch THEN RStrip(SubSeq(s, 1, Len(s) - 1), ch) ELSE s
Strip(s, ch) == RStrip(LStrip(s, ch), ch)

\* a cleaning that replaces and collapses but does not strip
clean_column_name_unstripped(col) ==
    SubRuns(SubRuns(col, NameChars \ WordChars, "_"), {"_"}, "_")

\* clean_column_names, one name: re.sub(r'\W+', '_', col).strip('_'), then
\* re.sub(r'_+', '_', col)
clean_column_name(col) ==
    SubRuns(Strip(SubRuns(col, NameChars \ WordChars, "_"), "_"), {"_"}, "_")

\* clean_column_names(self, columns): one cleaned name per column, in order
clean_column_names(columns) ==
    [k \in DOMAIN columns |-> clean_column_name(columns[k])]

\* str.split('_'): the parts between the underscores, empty parts included
RECURSIVE Split(_, _, _)
Split(s, part, parts) ==
    IF s = <<>> THEN Append(parts, part)
    ELSE IF Head(s) = "_" THEN Split(Tail(s), <<>>, Append(parts, part))
    ELSE Split(Tail(s), Append(part, Head(s)), parts)

LowerStr(s) == [i \in DOMAIN s |-> Lower(s[i])]
UpperStr(s) == [i \in DOMAIN s |-> Upper(s[i])]
\* str.capitalize()
Capitalize(s) == [i \in DOMAIN s |-> IF i = 1 THEN Upper(s[i]) ELSE Lower(s[i])]

RECURSIVE JoinCapitalized(_, _)
JoinCapitalized(parts, i) ==
    IF i > Len(parts) THEN <<>>
    ELSE Capitalize(parts[i]) \o JoinCapitalized(parts, i + 1)

\* to_camel_case(self, s)
to_camel_case(s) ==
    LowerStr(Split(s, <<>>, <<>>)[1]) \o JoinCapitalized(Split(s, <<>>, <<>>), 2)

\* format_column_names, one name; an unknown format leaves the name
format_column_name(col, format_type) ==
    CASE format_type = "camel_case" -> to_camel_case(col)
      [] format_type = "all_caps" -> UpperStr(col)
      [] format_type = "all_lower" -> LowerStr(col)
      [] OTHER -> col

(***************************************************************************)
(* Datasets with named columns: cols is the list of column names, rows the *)
(* list of rows, a row the list of its cells in the order of cols.  err is *)
(* the exception a step raised.                                            *)
(***************************************************************************)
Frame(cols, rows) == [cols |-> cols, rows |-> rows, err |-> "none"]
HasCol(df, name) == \E k \in DOMAIN df.cols : df.cols[k] = name

\* df[name] = vals, vals giving the cell of every row: an existing column
\* keeps its place, a new one is added after the others
Assign(df, name, vals) ==
    IF HasCol(df, name)
    THEN [df EXCEPT !.rows = [r \in DOMAIN df.rows |->
                                [k \in DOMAIN df.cols |->
                                    IF df.cols[k] = name THEN vals[r] ELSE df.rows[r][k]]]]
    ELSE [df EXCEPT !.cols = Append(df.cols, name),
                    !.rows = [r \in DOMAIN df.rows |-> Append(df.rows[r], vals[r])]]

\* df[name], the cell of every row
Column(df, name) ==
    [r \in DOMAIN df.rows |->
        df.rows[r][CHOOSE k \in DOMAIN df.cols : df.cols[k] = name]]

\* datetime.now(): one reading of the clock; the value df.eval computes
Now == Str(<<"now">>)
Evaluated == Str(<<"eval">>)

\* apply_transformation(self, df, transformation): the branch of every known
\* type; a type that is none of them falls through and df is returned as it is
apply_transformation(df, t) ==
    CASE t.type = "add_timestamp" ->
            Assign(df, t.column_name, [r \in DOMAIN df.rows |-> Now])
      [] t.type = "rename_column" ->
            [df EXCEPT !.cols = [k \in DOMAIN df.cols |->
                                    IF df.cols[k] = t.old_name THEN t.new_name
                                    ELSE df.cols[k]]]
      [] t.type = "standardize_phone" ->
            IF ~HasCol(df, t.column_name) THEN [df EXCEPT !.err = "KeyError"]
            ELSE Assign(df, t.column_name,
                        [r \in DOMAIN df.rows |->
                            Str(standardize_phone(Column(df, t.column_name)[r]))])
      [] t.type = "calculate_value" ->
            IF ~t.formula_ok THEN [df EXCEPT !.err = "ExpressionError"]
            ELSE Assign(df, t.new_column, [r \in DOMAIN df.rows |-> Evaluated])
      [] t.type = "clean_column_names" ->
            [df EXCEPT !.cols = clean_column_names(df.cols)]
      [] t.type = "format_column_names" ->
            [df EXCEPT !.cols = [k \in DOMAIN df.cols |->
                                    format_column_name(df.cols[k], t.format_type)]]
      [] OTHER -> df

\* transform(self, df), the loop over self.config['transformations'] for a
\* self that has the functions of this file as its methods and no
\* add_metadata in its config: an exception of a step ends the loop
RECURSIVE transform_steps(_, _, _)
transform_steps(df, steps, i) ==
    IF i > Len(steps) \/ df.err # "none" THEN df
    ELSE transform_steps(apply_transformation(df, steps[i]), steps, i + 1)

\* a transformation of the list in a pipeline document
Step(type) ==
    [type |-> type, column_name |-> <<>>, old_name |-> <<>>, new_name |-> <<>>,
     new_column |-> <<>>, formula_ok |-> TRUE, format_type |-> ""]

\* the column names of the datasets, and the cells
ColumnNames == {<<"a">>, <<"A">>, <<"a", " ", "A">>}
Cells == {Str(<<"1", "-", "2">>), Str(<<"2">>)}

\* the datasets of up to two columns with distinct names and up to n rows
Frames(n) ==
    UNION {{Frame(cols, rows) :
                rows \in UNION {[1..k -> [1..Len(cols) -> Cells]] : k \in 0..n}} :
           cols \in {c \in Strings(ColumnNames, 2) :
                       \A i, j \in DOMAIN c : c[i] = c[j] => i = j}}

\* the characters of the values handed to standardize_phone
PhoneChars == {"1", "2", "+", "-", "SUPERSCRIPT TWO"}
Phones == {Str(s) : s \in Strings(PhoneChars, MaxLen)} \cup {None}

(***************************************************************************)
(* The functions of transformations.py called on their own                 *)
(***************************************************************************)
InitT ==
    /\ backend = "CSV"
    /\ db = NoTable
    /\ file = NoFile
    /\ folder = <<>>
    /\ pipelines = {}
    /\ last = NoLast

\* the record of a finished call of a function: its argument and its result
FinishT(op, arg, out, err) ==
    /\ Idle
    /\ last' = [NoLast EXCEPT !.op = op, !.arg = arg, !.out = out, !.err = err]
    /\ UNCHANGED <<backend, db, file, folder, pipelines>>

StandardizePhone ==
    \E phone \in Phones :
        FinishT("standardize_phone", phone, standardize_phone(phone), "none")

\* the types apply_transformation has a branch for
KnownTypes ==
    {"add_timestamp", "rename_column", "standardize_phone", "calculate_value",
     "clean_column_names", "format_column_names"}

\* the transformations a document may list, a type without a branch among them
Transformations ==
    {[Step("add_timestamp") EXCEPT !.column_name = c] : c \in ColumnNames}
    \cup {[Step("rename_column") EXCEPT !.old_name = o, !.new_name = n] :
            o \in ColumnNames, n \in ColumnNames}
    \cup {[Step("standardize_phone") EXCEPT !.column_name = c] : c \in ColumnNames}
    \cup {[Step("calculate_value") EXCEPT !.new_column = <<"a">>, !.formula_ok = b] :
            b \in BOOLEAN}
    \cup {Step("clean_column_names")}
    \cup {[Step("format_column_names") EXCEPT !.format_type = f] :
            f \in {"camel_case", "all_caps", "all_lower", "title"}}
    \cup {Step("drop_column")}

\* the steps of the lists handed to transform
ListedSteps ==
    {Step("drop_column"), Step("clean_column_names"),
     [Step("add_timestamp") EXCEPT !.column_name = <<"A">>],
     [Step("standardize_phone") EXCEPT !.column_name = <<"a">>]}

ApplyTransformation ==
    \E df \in Frames(MaxDf), t \in Transformations :
        FinishT("apply_transformation", [df |-> df, t |-> t],
                apply_transformation(df, t), apply_transformation(df, t).err)

Transform ==
    \E df \in Frames(1), steps \in Strings(ListedSteps, MaxSteps) :
        FinishT("transform", [df |-> df, steps |-> steps],
                transform_steps(df, steps, 1), transform_steps(df, steps, 1).err)

\* clean_column_names on a list of one or two names
CleanColumnNames ==
    \E col \in Strings(NameChars, MaxLen), more \in Strings(ColumnNames, 1) :
        FinishT("clean_column_names", <<col>> \o more,
                clean_column_names(<<col>> \o more), "none")

NextT ==
    \/ StandardizePhone
    \/ CleanColumnNames
    \/ ApplyTransformation
    \/ Transform
    \/ Resume

SpecT == InitT /\ [][NextT]_vars

(***************************************************************************)
(* Reading the call log of the last operation                              *)
(***************************************************************************)
\* the calls the operation made itself, in order
Top(log) == SelectSeq(log, LAMBDA e : e.d = 1)

\* the positions of the calls of f with argument a
At(log, f, a) == {i \in DOMAIN log : log[i].f = f /\ log[i].a = a}

\* the positions of the calls of f, whatever the argument
Calls(log, f) == {i \in DOMAIN log : log[i].f = f}

\* the positions at which a statement reached the database
Stmt(log, stmt) == At(log, "execute", stmt)

\* the positions at which the rows of the table were removed by a statement
Truncations(log) == Stmt(log, "TRUNCATE TABLE") \cup Stmt(log, "DELETE FROM")

IsPrefix(s, t) == Len(s) <= Len(t) /\ \A i \in 1..Len(s) : s[i] = t[i]

(***************************************************************************)
(* Properties                                                              *)
(***************************************************************************)
\* the last operation was DatabaseConnector.truncate_and_load on a SQL backend
C1_Case == last.op = "truncate_and_load" /\ last.api = "connectors" /\ is_sql_based(backend)

\* C1: for every SQL backend type, truncate_and_load makes, in this order and
\* each at most once, the calls truncate_table and write(mode='append') (both
\* when it returns normally); the truncate statement reaches the database only
\* after an existence check, only when the table existed, at most once and
\* before the write, and always when the table existed and the write was
\* reached; nothing drops or recreates the table: no DROP statement, a single
\* to_sql with if_exists='append', and the columns of an existing table are
\* unchanged.
C1_TruncateAndLoadSequence ==
    C1_Case =>
        /\ IsPrefix(Top(last.log), <<Ev(1, "get_connector", backend),
                                     Ev(1, "truncate_table", ""),
                                     Ev(1, "write", "append")>>)
        /\ last.err = "none" => Len(Top(last.log)) = 3
        /\ \A i \in Truncations(last.log) :
              /\ last.pre.exists
              /\ \E j \in Stmt(last.log, "SELECT EXISTS") : j < i
              /\ \A k \in At(last.log, "write", "append") : i < k
        /\ Cardinality(Truncations(last.log)) <= 1
        /\ (last.pre.exists /\ At(last.log, "write", "append") # {})
              => Truncations(last.log) # {}
        /\ Stmt(last.log, "DROP TABLE IF EXISTS") = {}
        /\ Calls(last.log, "to_sql") = At(last.log, "to_sql", "append")
        /\ Cardinality(Calls(last.log, "to_sql")) <= 1
        /\ last.pre.exists => (db.exists /\ db.cols = last.pre.cols)

\* C1 witness: a truncate_and_load that returned normally on a table that held
\* rows: the rows were truncated and the dataset's rows are the table's rows
C1_Witness ==
    /\ C1_Case
    /\ last.err = "none"
    /\ last.pre.exists /\ Len(last.pre.rows) > 0
    /\ Len(last.df.rows) > 0
    /\ Truncations(last.log) # {}
    /\ db.rows = last.df.rows

\* the steps of a load operation, after the connector was made: the calls
\* DatabaseConnector makes at depth 1, the calls a handler makes at depth 2
Steps(log, api) ==
    IF api = "connectors"
    THEN SelectSeq(log, LAMBDA e : e.d = 1 /\ e.f # "get_connector")
    ELSE SelectSeq(log, LAMBDA e : e.d = 2)

\* the last operation was drop_and_load on a SQL backend
C2_Case == last.op = "drop_and_load" /\ is_sql_based(backend)

\* C2: for every SQL backend type, drop_and_load calls drop_table first, whether
\* or not the table exists, and then the write, each exactly once and in this
\* order (DatabaseConnector: write(mode='replace'); the handlers: write_data on
\* the table just dropped); a drop step that fails is the only thing that keeps
\* the write from being called.  With no failure of the database
\* DatabaseConnector.drop_and_load returns normally from any table, absent or
\* present, and whenever it returns normally (for a handler: whenever its
\* write_data got as far as validating the write) the table exists with the
\* dataset's columns.
C2_DropThenWriteReplace ==
    C2_Case =>
        /\ Len(Steps(last.log, last.api)) >= 1
        /\ IsPrefix(Steps(last.log, last.api),
                    IF last.api = "connectors"
                    THEN <<Ev(1, "drop_table", ""), Ev(1, "write", "replace")>>
                    ELSE <<Ev(2, "drop_table", ""), Ev(2, "write_data", "append")>>)
        /\ (Len(Steps(last.log, last.api)) = 1) => last.err # "none"
        /\ (last.api = "connectors" /\ last.fault = "none" /\ last.pre.schema)
              => last.err = "none"
        /\ (last.api = "connectors" /\ last.err = "none")
              => (db.exists /\ db.cols = last.df.cols /\ db.rows = last.df.rows)
        /\ (last.api = "handler" /\ Calls(last.log, "_validate_write") # {})
              => (db.exists /\ db.cols = last.df.cols)

\* C2 witness: DatabaseConnector.drop_and_load returned normally on a table that
\* held rows under other columns, and the table now has the dataset's columns
C2_Witness ==
    /\ C2_Case
    /\ last.api = "connectors"
    /\ last.err = "none"
    /\ last.pre.exists /\ Len(last.pre.rows) > 0
    /\ last.pre.cols # last.df.cols
    /\ db.exists /\ db.cols = last.df.cols

\* the rows of the target of the backend, now and before the last operation
TargetRows == IF is_sql_based(backend) THEN db.rows ELSE file.rows
PreRows == IF is_sql_based(backend) THEN last.pre.rows ELSE last.prefile.rows

\* C3: for every backend type, file and SQL, DatabaseConnector.append makes
\* exactly one call write(mode='append') and no call of truncate_table or
\* drop_table, and when it returns normally every row the target held before is
\* still there, followed by the rows of the dataset.
C3_AppendKeepsRows ==
    (last.op = "append" /\ last.api = "connectors" /\ last.err = "none") =>
        /\ Steps(last.log, last.api) = <<Ev(1, "write", "append")>>
        /\ Calls(last.log, "truncate_table") = {}
        /\ Calls(last.log, "drop_table") = {}
        /\ TargetRows = PreRows \o last.df.rows

\* the last operation was truncate_table on a SQL backend, the database working
C4_Case ==
    /\ last.op = "truncate_table"
    /\ is_sql_based(backend)
    /\ last.fault = "none"
    /\ last.pre.schema

\* C4: for all supported backends, truncate_table on an existing table returns
\* normally and leaves the table present, with its columns and zero rows;
\* truncate_table on a table that does not exist raises no exception, sends no
\* statement that removes rows and leaves the database as it was.
C4_TruncateContract ==
    C4_Case =>
        /\ last.err = "none"
        /\ last.pre.exists
              => (db.exists /\ db.cols = last.pre.cols /\ db.rows = <<>>)
        /\ ~last.pre.exists
              => (db = last.pre /\ Truncations(last.log) = {})

\* the last operation was drop_table on a SQL backend
C5_Case == last.op = "drop_table" /\ is_sql_based(backend)

\* C5: for all supported SQL backends, when drop_table has returned normally the
\* table is absent and the existence check (table_exists of the connector,
\* _table_exists of a handler) returns false; drop_table on a table that is
\* already absent raises no error and leaves it absent; with the database
\* working drop_table returns normally whether or not the table exists.
C5_DropThenAbsent ==
    C5_Case =>
        /\ last.err = "none" =>
              /\ ~db.exists
              /\ Ok(table_exists(World(db, file, "none"), backend, 1))
              /\ ~table_exists(World(db, file, "none"), backend, 1).ret
              /\ ~Handler_table_exists(World(db, file, "none"), HandlerOf(backend), 1).ret
        /\ (~last.pre.exists /\ last.fault = "none" /\ last.pre.schema)
              => (last.err = "none" /\ db = last.pre)
        /\ (last.fault = "none" /\ last.pre.schema) => last.err = "none"

\* C5 witness: drop_table was called on a table already absent, the DROP
\* statement was sent, and the call returned normally
C5_Witness ==
    /\ C5_Case
    /\ ~last.pre.exists
    /\ last.err = "none"
    /\ Stmt(last.log, "DROP TABLE IF EXISTS") # {}
    /\ ~db.exists

\* the last operation was a load op on a SQL backend that returned normally;
\* for a handler, with the database working
C6_Returned(op) ==
    /\ last.op = op
    /\ is_sql_based(backend)
    /\ last.err = "none"
    /\ (last.api = "connectors" \/ last.fault = "none")

\* C6: an append of a dataset of n rows that returns normally onto a table with
\* the dataset's columns, or onto no table, leaves the rows the table held
\* followed by the n rows of the dataset: n rows from an empty table, and 2*n
\* rows when the table held exactly the rows of a first append of the same
\* dataset.  A drop_and_load that returns normally leaves exactly the n rows of
\* the dataset, whatever the table held, so also after a first drop_and_load.
C6_RoundTripRowCounts ==
    /\ (C6_Returned("append") /\ (last.pre.exists => last.pre.cols = last.df.cols)) =>
          /\ db.rows = last.pre.rows \o last.df.rows
          /\ last.pre.rows = <<>> => Len(db.rows) = Len(last.df.rows)
          /\ last.pre.rows = last.df.rows => Len(db.rows) = 2 * Len(last.df.rows)
    /\ C6_Returned("drop_and_load") =>
          /\ db.rows = last.df.rows
          /\ Len(db.rows) = Len(last.df.rows)

\* C6 witness: the second append of a one-row or larger dataset: the table held
\* the dataset's rows, put there by a first load, and now holds them twice
C6_Witness ==
    /\ C6_Returned("append")
    /\ Len(last.df.rows) > 0
    /\ last.pre.exists /\ last.pre.rows = last.df.rows
    /\ Len(db.rows) = 2 * Len(last.df.rows)

\* C7: when the table does not exist and the database is working,
\* truncate_and_load sends no statement that removes rows, raises no error, and
\* goes on to the write, which creates the table and loads all rows of the
\* dataset.
C7_TruncateAndLoadCreates ==
    (/\ last.op = "truncate_and_load"
     /\ is_sql_based(backend)
     /\ ~last.pre.exists /\ last.pre.schema
     /\ last.fault = "none") =>
        /\ last.err = "none"
        /\ Truncations(last.log) = {}
        /\ db.exists /\ db.cols = last.df.cols /\ db.rows = last.df.rows

\* the last operation was run_pipeline of a loaded pipeline whose document has
\* every required key
RanLoaded(c) ==
    /\ last.op = "run_pipeline"
    /\ c \in pipelines
    /\ c.name = last.name
    /\ c.keys = DefaultCfg.keys

\* C8: a run whose source is a file of n > 0 rows, whose target is a SQL table
\* with action truncate_and_load and whose only transformation is
\* add_timestamp, with the database working, returns with status success and
\* leaves exactly the n rows of the source in the target table, whatever the
\* table held before.
C8_EndToEndTruncateAndLoad ==
    \A c \in pipelines :
        (/\ RanLoaded(c)
         /\ c.source_connection = "src" /\ c.target_connection = "tgt" /\ c.table_name
         /\ c.action = "truncate_and_load"
         /\ c.transformations = <<"add_timestamp">>
         /\ is_sql_based(backend)
         /\ last.src_ok /\ Len(last.df.rows) > 0
         /\ last.fault = "none" /\ last.pre.schema) =>
            /\ last.err = "none"
            /\ last.status.success
            /\ db.exists /\ Len(db.rows) = Len(last.df.rows)

\* C9: when the target connection of a pipeline is not in the connection
\* registry, run_pipeline returns without raising, the status of the run is
\* failed and carries the not-found error, and no write, truncate or drop was
\* attempted: the target is as it was.
C9_MissingTargetConnection ==
    \A c \in pipelines :
        (RanLoaded(c) /\ c.target_connection \notin Registry) =>
            /\ last.err = "none"
            /\ last.status.built /\ ~last.status.success
            /\ \E i \in DOMAIN last.status.errors :
                  last.status.errors[i][2] = "ValueError: Connection not found"
            /\ Calls(last.log, "write_target") = {}
            /\ Calls(last.log, "process_request") = {}
            /\ db = last.pre /\ file = last.prefile

\* C10: a run of a pipeline whose target action is outside append,
\* truncate_and_load, drop_and_load is rejected while the pipeline is set up:
\* the source is never read.
C10_UnsupportedActionBeforeRead ==
    \A c \in pipelines :
        (/\ RanLoaded(c)
         /\ c.source_connection = "src" /\ c.target_connection = "tgt" /\ c.table_name
         /\ c.action \notin {"append", "truncate_and_load", "drop_and_load"}) =>
            /\ Calls(last.log, "read_source") = {}
            /\ Calls(last.log, "read_data") = {}

\* a Pipeline was constructed from descriptor c: directly, or by run_pipeline
\* from the descriptor loaded under the name
Constructed(c) ==
    \/ last.op = "Pipeline" /\ last.arg = c
    \/ last.op = "run_pipeline" /\ c \in pipelines /\ c.name = last.name

\* the calls that load connection documents, read a source or write a target
IOCalls(log) ==
    Calls(log, "load_connections") \cup Calls(log, "read_source")
    \cup Calls(log, "read_data") \cup Calls(log, "write_target")
    \cup Calls(log, "write_data") \cup Calls(log, "process_request")
    \cup Calls(log, "execute")

\* C11: constructing a Pipeline from a descriptor that lacks one of the keys
\* name, source, target, transformations raises ValueError from the
\* constructor before any I/O: no connection document is loaded, nothing is
\* read or written, no status record is made and the target is as it was.
C11_MissingKeyAtConstruction ==
    \A c \in Cfgs :
        (Constructed(c) /\ c.keys # DefaultCfg.keys) =>
            /\ last.err = "ValueError: Missing required configuration key"
            /\ IOCalls(last.log) = {}
            /\ Calls(last.log, "setup_target") = {}
            /\ ~last.status.built
            /\ db = last.pre /\ file = last.prefile

C11_Witness ==
    /\ last.op = "Pipeline"
    /\ "name" \notin last.arg.keys
    /\ last.err = "ValueError: Missing required configuration key"
    /\ Calls(last.log, "validate_config") # {}

\* the pipeline object as its constructor left it before the last operation
Built(c) == Pipeline_init(World(last.pre, last.prefile, last.fault), c)

\* the outcome of the try block of read_source in the last run of c
ReadStage(c) ==
    read_source_body(Built(c), c, [ok |-> last.src_ok, df |-> last.df])

\* the outcome of the try block of write_target in the last write of c
WriteStage(c) == write_target_body(Built(c), c, last.df)

\* status.errors holds the message of exception e
Recorded(e) ==
    \E i \in DOMAIN last.status.errors : last.status.errors[i][2] = e

\* C12: when the read stage of Pipeline.run raises, or the write stage
\* raises, status.success is false and the message of the exception is in
\* status.errors; the failed stage is called once, not again; run returns
\* without raising; and every run logs its summary exactly once, as its last
\* step.
C12_FailureRecordedSummaryOnce ==
    \A c \in Cfgs :
        /\ (Constructed(c) /\ Calls(last.log, "run") # {}) =>
              /\ last.err = "none"
              /\ Cardinality(Calls(last.log, "log_summary")) = 1
              /\ last.log[Len(last.log)].f = "log_summary"
              /\ Cardinality(Calls(last.log, "read_source")) = 1
              /\ Cardinality(Calls(last.log, "write_target")) <= 1
              /\ ~Ok(ReadStage(c)) =>
                    /\ ~last.status.success
                    /\ Recorded(ReadStage(c).err)
                    /\ Cardinality(Calls(last.log, "read_data")) <= 1
        /\ (last.op = "write_target" /\ last.arg = c /\ ~Ok(WriteStage(c))) =>
              /\ last.err = "none"
              /\ last.log[Len(last.log)].f = "handle_error"
              /\ ~last.status.success
              /\ Recorded(WriteStage(c).err)
              /\ Cardinality(Calls(last.log, "write_target")) = 1
              /\ Cardinality(Calls(last.log, "process_request")) <= 1
              /\ Cardinality(Calls(last.log, "write_data")) <= 1

C12_Witness ==
    /\ last.op = "run_pipeline"
    /\ ~last.src_ok
    /\ Calls(last.log, "read_data") # {}
    /\ Recorded("FormatError")
    /\ Calls(last.log, "log_summary") # {}

\* C13: no error raised while one pipeline is set up or run leaves
\* run_pipeline: the call returns normally, and a pipeline that could not be
\* set up or run has a status record marked failed that lists the error; the
\* descriptors of the manager are untouched.
C13_NoErrorEscapesRunPipeline ==
    last.op = "run_pipeline" =>
        /\ last.err = "none"
        /\ \A c \in pipelines :
              (c.name = last.name /\ ~Ok(Built(c))) =>
                  /\ last.status.built /\ ~last.status.success
                  /\ Recorded(Built(c).err)

\* a pipeline of the name exists in the manager's table
Loaded(name) == \E x \in pipelines : x.name = name

\* C14: run_pipeline(name) for a name that is not in the manager's table
\* (never defined, or defined only by a disabled descriptor) logs an error and
\* returns without raising: it constructs no Pipeline, reads and writes
\* nothing, and leaves the table of pipelines and the target as they were.
C14_UnknownPipelineNoOp ==
    [][(last'.op = "run_pipeline" /\ ~Loaded(last'.name)) =>
          /\ last'.err = "none"
          /\ last'.log = <<Ev(1, "run_pipeline", last'.name),
                           Ev(2, "error", "pipeline not found")>>
          /\ ~last'.status.built
          /\ pipelines' = pipelines
          /\ db' = db /\ file' = file]_vars

C14_Witness ==
    /\ last.op = "run_pipeline"
    /\ \E i \in DOMAIN folder :
          folder[i].doc.name = last.name /\ ~folder[i].doc.enabled
    /\ ~Loaded(last.name)
    /\ Calls(last.log, "error") # {}

\* a file the loaders open, and one whose document has a name
Opened(f) == f.ext = ".yaml"
WellFormed(f) == Opened(f) /\ f.yaml = "ok" /\ "name" \in f.doc.keys

\* the last file of the folder, among those satisfying Kept, that carries the
\* name of file i
LastOfName(i, Kept(_)) ==
    \A j \in DOMAIN folder :
        (Kept(folder[j]) /\ folder[j].doc.name = folder[i].doc.name) => j <= i

\* the table holds exactly the documents of the files satisfying Kept, each
\* name with the document of the last file that carries it
TableOf(table, Kept(_)) ==
    /\ \A i \in DOMAIN folder :
          (Kept(folder[i]) /\ LastOfName(i, Kept)) => folder[i].doc \in table
    /\ \A x \in table :
          \E i \in DOMAIN folder :
              Kept(folder[i]) /\ LastOfName(i, Kept) /\ folder[i].doc = x

\* every opened file that is not well formed has its error in the log
ErrorsLogged ==
    Cardinality({i \in DOMAIN folder : Opened(folder[i]) /\ ~WellFormed(folder[i])})
        = Cardinality({j \in DOMAIN last.log : last.log[j].level = "error"})

\* C15: a loader that meets a malformed document, or one without 'name', logs
\* an error for it and goes on: it does not fail, and every well-formed
\* document of the folder (for pipelines: every enabled one) is registered
\* under its name, and nothing else is.
C15_LoaderSkipsBadDocuments ==
    /\ last.op = "load_pipelines" =>
          /\ last.err = "none"
          /\ pipelines = last.out
          /\ TableOf(pipelines, LAMBDA f : WellFormed(f) /\ f.doc.enabled)
          /\ ErrorsLogged
    /\ (last.op = "load_connections" /\ last.arg) =>
          /\ last.err = "none"
          /\ TableOf(last.out, WellFormed)
          /\ ErrorsLogged

C15_Witness ==
    /\ last.op = "load_pipelines"
    /\ Len(folder) >= 2
    /\ ~WellFormed(folder[1]) /\ Opened(folder[1])
    /\ WellFormed(folder[2]) /\ folder[2].doc.enabled
    /\ folder[2].doc \in pipelines

\* C16: a run that reads zero rows from its source and has no transformation
\* step to apply is a successful run: status.success is true, status.errors
\* is empty and target_rows is 0.
C16_ZeroRowRunSucceeds ==
    \A c \in pipelines :
        (/\ RanLoaded(c)
         /\ c.source_connection = "src" /\ c.target_connection = "tgt" /\ c.table_name
         /\ c.transformations = <<>>
         /\ last.src_ok /\ Len(last.df.rows) = 0) =>
            /\ last.status.success
            /\ last.status.errors = <<>>
            /\ last.status.target_rows = 0

\* the calls made by the read, the transform and the write stage of a run
ReadCalls(log) == Calls(log, "read_source") \cup Calls(log, "read_data")
TransformCalls(log) == Calls(log, "transform_data") \cup Calls(log, "transform")
WriteCalls(log) ==
    Calls(log, "write_target") \cup Calls(log, "process_request")
    \cup Calls(log, "write_data") \cup Calls(log, "to_sql")

\* C17: in one Pipeline.run every call of the read stage comes before every
\* call of the transform stage, every call of the transform stage before
\* every call of the write stage, the read and the transform stage are each
\* started exactly once and the write stage at most once, also after a
\* failure.
C17_StagesOrderedOnce ==
    (last.op = "run_pipeline" /\ Calls(last.log, "run") # {}) =>
        /\ Cardinality(Calls(last.log, "read_source")) = 1
        /\ Cardinality(Calls(last.log, "transform_data")) = 1
        /\ Cardinality(Calls(last.log, "write_target")) <= 1
        /\ \A i \in ReadCalls(last.log) :
              \A j \in TransformCalls(last.log) \cup WriteCalls(last.log) : i < j
        /\ \A j \in TransformCalls(last.log) : \A k \in WriteCalls(last.log) : j < k
        /\ \A i \in Calls(last.log, "run") : \A j \in ReadCalls(last.log) : i < j

C17_Witness ==
    /\ last.op = "run_pipeline"
    /\ last.src_ok /\ Len(last.df.rows) > 0
    /\ last.status.source_rows = Len(last.df.rows)
    /\ Calls(last.log, "read_data") # {}
    /\ Calls(last.log, "transform") # {}

IsDecimalDigit(ch) == ch \in DecimalDigits

\* C20: standardize_phone maps a string to the subsequence of its decimal
\* digit characters, in their order, and applied to its own result returns
\* that result.
C20_PhoneDigitsIdempotent ==
    (last.op = "standardize_phone" /\ last.arg.t = "str") =>
        /\ last.out = SelectSeq(last.arg.s, IsDecimalDigit)
        /\ standardize_phone(Str(last.out)) = last.out

\* C18: when a list of transformations holds a step of a type that is none of
\* the known types, transform fails at the first such step that is reached:
\* it raises, and the dataset is the one the steps before it produced.
C18_UnknownTypeFails ==
    last.op = "transform" =>
        \A i \in DOMAIN last.arg.steps :
            (/\ last.arg.steps[i].type \notin KnownTypes
             /\ \A j \in 1..(i - 1) : last.arg.steps[j].type \in KnownTypes
             /\ transform_steps(last.arg.df, SubSeq(last.arg.steps, 1, i - 1), 1).err
                    = "none") =>
                /\ last.err # "none"
                /\ last.out.cols
                      = transform_steps(last.arg.df,
                                        SubSeq(last.arg.steps, 1, i - 1), 1).cols
                /\ last.out.rows
                      = transform_steps(last.arg.df,
                                        SubSeq(last.arg.steps, 1, i - 1), 1).rows

\* C19: rename_column(old_name, new_name) raises when the dataset has no
\* column old_name; when it has one, the result has the same number of
\* columns, the column old_name is called new_name, every other column keeps
\* its name and place, and the rows are unchanged.
C19_RenameColumn ==
    (last.op = "apply_transformation" /\ last.arg.t.type = "rename_column") =>
        /\ ~HasCol(last.arg.df, last.arg.t.old_name) => last.err # "none"
        /\ HasCol(last.arg.df, last.arg.t.old_name) =>
              /\ last.err = "none"
              /\ DOMAIN last.out.cols = DOMAIN last.arg.df.cols
              /\ \A k \in DOMAIN last.arg.df.cols :
                    last.out.cols[k] = IF last.arg.df.cols[k] = last.arg.t.old_name
                                       THEN last.arg.t.new_name
                                       ELSE last.arg.df.cols[k]
              /\ last.out.rows = last.arg.df.rows

\* the name as the three steps make it: every maximal run of non-word
\* characters replaced by one underscore, repeated underscores collapsed,
\* leading and trailing underscores stripped
Cleaned(col) ==
    Strip(SubRuns(SubRuns(col, NameChars \ WordChars, "_"), {"_"}, "_"), "_")

\* C21: clean_column_names returns one name per column, in the same order,
\* each the replaced, collapsed and stripped input name: it holds word
\* characters only, does not start or end with an underscore and has no two
\* adjacent underscores.
C21_CleanColumnNames ==
    last.op = "clean_column_names" =>
        /\ Len(last.out) = Len(last.arg)
        /\ \A k \in DOMAIN last.arg :
              /\ last.out[k] = Cleaned(last.arg[k])
              /\ \A i \in DOMAIN last.out[k] : last.out[k][i] \in WordChars
              /\ last.out[k] # <<>> =>
                    /\ last.out[k][1] # "_"
                    /\ last.out[k][Len(last.out[k])] # "_"
              /\ \A i \in 1..(Len(last.out[k]) - 1) :
                    ~(last.out[k][i] = "_" /\ last.out[k][i + 1] = "_")

C21_Witness ==
    /\ last.op = "clean_column_names"
    /\ last.arg = << <<" ", "a", "_">>, <<"a", " ", "A">> >>
    /\ last.out = << <<"a">>, <<"a", "_", "A">> >>

\* the operations of connectors.py, database_connectors.py and runtime.py
ConnectorOp == last.api \in {"connectors", "handler", "runtime"}

\* every connection opened in the log is closed before the call that opened
\* it is left: a "close" of the same depth follows the "connect", and no call
\* of a smaller depth is logged between the two
Released(log) ==
    \A i \in DOMAIN log :
        (log[i].f = "connect" /\ log[i].a = "") =>
            \E j \in (i + 1)..Len(log) :
                /\ log[j].f = "close"
                /\ log[j].d = log[i].d
                /\ \A k \in (i + 1)..(j - 1) : log[k].d >= log[i].d

\* C22: every connection a connector operation opened is closed when the
\* operation returns or raises, whatever happened to the statements executed
\* on it: none is open at the end, and each nested call closed its own before
\* it was left.
C22_ConnectionsReleased ==
    ConnectorOp => (last.open = 0 /\ Released(last.log))

\* a DROP TABLE rejected on an open connection: the error propagates and the
\* connection is closed all the same
C22_Witness ==
    /\ last.api = "connectors"
    /\ last.op = "drop_table"
    /\ last.fault = "ddl"
    /\ last.err = "SQLAlchemyError"
    /\ \E i, j, k \in DOMAIN last.log :
          /\ i < j /\ j < k
          /\ last.log[i].f = "connect" /\ last.log[i].a = ""
          /\ last.log[j].f = "execute" /\ last.log[j].a = "DROP TABLE IF EXISTS"
          /\ last.log[k].f = "close"
    /\ last.open = 0

\* C23: at every point of a connector operation at most one connection of
\* the connector is open, also while write(mode='truncate' / 'replace') runs
\* its existence check and its truncate or drop.
C23_OneConnectionAtATime ==
    ConnectorOp => last.maxOpen <= 1

\* the type names of the connection configuration document
TypeNames == {"CSV", "Excel", "PostgreSQL", "MySQL", "Redshift", "MSSQL",
              "Oracle", "SQLite", "ODBC"}

\* C24: a lookup by one of the nine type names yields the connector
\* registered for that name; a lookup by any other name raises the
\* configuration error at once, and nothing is read or written.
C24_TypeLookup ==
    (last.op \in {"read", "get_connector"} /\ last.arg # <<>>) =>
        /\ last.log # <<>>
        /\ last.log[1].f = "get_connector"
        /\ last.arg[1] \in TypeNames => last.log[1].a = last.arg[1]
        /\ last.arg[1] \notin TypeNames =>
              /\ last.err = "ValueError"
              /\ Len(last.log) = 1

\* the load operations of the connector level
LoadOps == {"append", "truncate_and_load", "drop_and_load"}

\* C25: a load that returned normally has inserted every row of the dataset:
\* the rows of the dataset are the last rows of the target.  (A failing insert
\* makes the load raise.)
C25_WriteFailurePropagates ==
    (ConnectorOp /\ last.op \in LoadOps /\ last.err = "none") =>
        /\ Len(TargetRows) >= Len(last.df.rows)
        /\ SubSeq(TargetRows, Len(TargetRows) - Len(last.df.rows) + 1, Len(TargetRows)) = last.df.rows

\* the verification step of write_data was reached
Verified(log) == \E i \in DOMAIN log : log[i].f = "_validate_write"

\* C26: on a handler, a truncate_and_load or drop_and_load returns normally
\* only when the table holds exactly as many rows as the dataset; when the
\* count differs when the write is verified, it raises DatabaseError.
C26_PostWriteVerification ==
    (last.api = "handler" /\ last.op \in {"truncate_and_load", "drop_and_load"}) =>
        /\ last.err = "none" => Len(db.rows) = Len(last.df.rows)
        /\ (Verified(last.log) /\ Len(db.rows) # Len(last.df.rows)) =>
              last.err = "DatabaseError"

\* truncate_and_load removed the rows of an existing table and its insert of a
\* dataset with rows was then rejected
C27_Case ==
    /\ ConnectorOp
    /\ last.op = "truncate_and_load"
    /\ is_sql_based(backend)
    /\ last.fault = "insert"
    /\ Truncations(last.log) # {}
    /\ last.df.rows # <<>>

\* C27: truncate_and_load is not atomic: when the write fails after the
\* truncate has been committed, the truncate is not rolled back, the table is
\* left present with no rows, and the error propagates to the caller.
C27_TruncateNotRolledBack ==
    C27_Case =>
        /\ Stmt(last.log, "ROLLBACK") = {}
        /\ db.exists
        /\ db.rows = <<>>
        /\ last.err # "none"

\* the last operation constructed, ran or wrote with one pipeline object,
\* whose status last.status is
OnePipeline == last.op \in {"Pipeline", "run_pipeline", "write_target"} /\ last.status.built

\* C28: in the status of a pipeline object, success is false exactly when
\* errors is not empty.  A pipeline just constructed has success true and no
\* error; every entry of errors was appended by one call of handle_error and
\* none was removed, and success does not return to true.
C28_SuccessIffNoErrors ==
    OnePipeline =>
        /\ last.status.success <=> (last.status.errors = <<>>)
        /\ Len(last.status.errors) = Cardinality(Calls(last.log, "handle_error"))
        /\ \A i \in DOMAIN last.status.errors :
              \E j \in Calls(last.log, "handle_error") :
                  /\ last.log[j].a = last.status.errors[i][1]
                  /\ Cardinality({k \in Calls(last.log, "handle_error") : k <= j}) = i
        /\ last.op = "Pipeline" => last.status.success

\* a run whose read failed and whose transform raised: two errors, in order
C28_Witness ==
    /\ last.op = "run_pipeline"
    /\ last.status.built
    /\ ~last.status.success
    /\ Len(last.status.errors) = 2
    /\ last.status.errors[1][1] = "Error reading source data"
    /\ last.status.errors[2][1] = "Pipeline run failed"

\* the except clause of run recorded an exception of the transform stage
TransformRaised ==
    /\ Calls(last.log, "transform") # {}
    /\ \E i \in DOMAIN last.status.errors :
          last.status.errors[i][1] = "Pipeline run failed"

\* C29: when the read stage of a run fails or its transform raises, no write,
\* truncate or drop reaches the target, the target is as it was, and the run
\* ends with success false and target_rows 0; target_rows is non-zero only
\* after the write stage was called and returned without an error.
C29_NoWriteAfterFailure ==
    /\ \A c \in Cfgs :
          (/\ last.op = "run_pipeline" /\ Constructed(c) /\ last.status.built
           /\ (~Ok(ReadStage(c)) \/ TransformRaised)) =>
              /\ WriteCalls(last.log) = {}
              /\ Calls(last.log, "execute") = {}
              /\ db = last.pre /\ file = last.prefile
              /\ ~last.status.success
              /\ last.status.target_rows = 0
    /\ (OnePipeline /\ last.status.target_rows # 0) =>
          /\ Calls(last.log, "write_target") # {}
          /\ \A j \in Calls(last.log, "write_target") :
                \A k \in Calls(last.log, "handle_error") : k < j
          /\ last.status.target_rows = Len(last.df.rows)

\* a run that read rows and whose transform raised: nothing was written
C29_Witness ==
    /\ last.op = "run_pipeline"
    /\ last.src_ok /\ Len(last.df.rows) > 0
    /\ last.status.source_rows = Len(last.df.rows)
    /\ TransformRaised
    /\ WriteCalls(last.log) = {}
    /\ last.status.target_rows = 0
    /\ ~last.status.success

\* the names of the pipelines run_pipeline was called for, in call order
RunNames(log) ==
    LET runs == SelectSeq(log, LAMBDA e : e.f = "run_pipeline")
    IN  [i \in DOMAIN runs |-> runs[i].a]

\* the names of a schedule that are in the manager's table, in their order
LoadedNames(names) ==
    SelectSeq(names, LAMBDA n : \E x \in pipelines : x.name = n)

\* C30: run_schedule calls run_pipeline once for every name of the schedule
\* that is in the manager's table, in the order of the schedule, whatever
\* happened to the pipelines before it; every other name is logged and
\* skipped.
C30_ScheduleRunsAll ==
    (last.op = "run_schedule" /\ last.name = "found") =>
        /\ RunNames(last.log) = LoadedNames(last.arg)
        /\ Cardinality(At(last.log, "error", "pipeline in schedule not found"))
              = Len(last.arg) - Len(LoadedNames(last.arg))
        /\ last.err = "none"
====
